---- MODULE Spec2Model ----
(***************************************************************************)
(* Model of src/controllers/postController.js: the module-level array      *)
(* `posts` and the five Express handlers getPosts, getPost, createPost,    *)
(* updatePost and deletePost.                                              *)
(*                                                                         *)
(* JavaScript values are tagged records:                                   *)
(*   undefined, null      [type |-> "undefined"], [type |-> "null"]        *)
(*   a boolean            [type |-> "boolean", value |-> b]                *)
(*   a string             [type |-> "string", value |-> s]                 *)
(*   an integer, below    [type |-> "number", value |-> n]                 *)
(*     10^9 in magnitude                                                   *)
(*   an integer of 10^9   [type |-> "bignumber", negative |-> b,           *)
(*     or more, Infinity    infinite |-> b, digits |-> decimal digits]     *)
(*   NaN                  [type |-> "NaN"]                                 *)
(*   an array, an object  [type |-> "array", value |-> elements],          *)
(*                        [type |-> "object"]                              *)
(* A string that the code parses (req.params.id, req.query.limit) carries  *)
(* its UTF-16 code units as a sequence of numbers, "\n2" being <<10, 50>>; *)
(* a title, which the code only tests for truthiness and stores, carries a *)
(* TLA+ string.                                                            *)
(* A post is a record [id |-> Int, title |-> JS value].                    *)
(***************************************************************************)
EXTENDS Integers, Sequences, FiniteSets, TLC

VARIABLES posts, req, res

vars == <<posts, req, res>>

\* Largest collection the model lets createPost build.
MaxPosts == 4

\* The same for the machine without successful deletes.
MaxPostsNoDelete == 5

---------------------------------------------------------------------------
(* JavaScript values *)

undefined == [type |-> "undefined"]

null == [type |-> "null"]

NaN == [type |-> "NaN"]

Bool(b) == [type |-> "boolean", value |-> b]

Str(s) == [type |-> "string", value |-> s]

\* An integer of magnitude below 10^9.
Num(n) == [type |-> "number", value |-> n]

\* A number of magnitude 10^9 or more: its sign and, most significant first,
\* the decimal digits of the double it is.
BigNum(negative, digits) ==
  [type |-> "bignumber", negative |-> negative, infinite |-> FALSE,
   digits |-> digits]

Infinity(negative) ==
  [type |-> "bignumber", negative |-> negative, infinite |-> TRUE,
   digits |-> <<>>]

Arr(elements) == [type |-> "array", value |-> elements]

Obj == [type |-> "object"]

\* ToBoolean: undefined, null, false, 0, NaN and the empty string are falsy,
\* everything else is truthy.
Truthy(v) ==
  CASE v.type = "string"    -> Len(v.value) > 0
    [] v.type = "number"    -> v.value # 0
    [] v.type = "boolean"   -> v.value
    [] v.type \in {"bignumber", "array", "object"} -> TRUE
    [] OTHER                -> FALSE

---------------------------------------------------------------------------
(* Natural numbers: as decimal digits, most significant first, without    *)
(* leading zeros (zero is the empty sequence); and, for arithmetic, as      *)
(* limbs, the same in base 10000.  The rounding of a natural number to the  *)
(* nearest double.                                                          *)

\* s without its first n elements.
Drop(s, n) == SubSeq(s, n + 1, Len(s))

\* The number of leading elements of s that are in the set.
LeadingIn(s, set) ==
  CHOOSE n \in 0..Len(s) :
    /\ n = Len(s) \/ s[n + 1] \notin set
    /\ \A i \in 1..n : s[i] \in set

StripZeros(d) == Drop(d, LeadingIn(d, {0}))

Zeros(n) == [i \in 1..n |-> 0]

StripTrailingZeros(d) ==
  SubSeq(d, 1, CHOOSE n \in 0..Len(d) :
                 /\ \A i \in (n + 1)..Len(d) : d[i] = 0
                 /\ n = 0 \/ d[n] # 0)

\* The limbs of the digits d: four digits to a limb, the first limb taking
\* what is left over.
ToLimbs(d) ==
  LET n      == (Len(d) + 3) \div 4
      padded == Zeros(4 * n - Len(d)) \o d
  IN [i \in 1..n |-> padded[4 * i - 3] * 1000 + padded[4 * i - 2] * 100
                       + padded[4 * i - 1] * 10 + padded[4 * i]]

\* The digits of the limbs l.
ToDigits(l) ==
  StripZeros([j \in 1..(4 * Len(l)) |->
                LET limb == l[(j + 3) \div 4]
                    pos  == (j - 1) % 4
                IN CASE pos = 0 -> limb \div 1000
                     [] pos = 1 -> (limb \div 100) % 10
                     [] pos = 2 -> (limb \div 10) % 10
                     [] pos = 3 -> limb % 10])

\* F applied to the value of v, which is worked out once, before F.
With(v, F(_)) == CHOOSE r \in { F(x) : x \in {v} } : TRUE

Front(s) == SubSeq(s, 1, Len(s) - 1)

RECURSIVE SmallLimbs(_)
SmallLimbs(c) ==
  IF c = 0 THEN <<>> ELSE Append(SmallLimbs(c \div 10000), c % 10000)

RECURSIVE SmallDigits(_)
SmallDigits(c) == IF c = 0 THEN <<>> ELSE Append(SmallDigits(c \div 10), c % 10)

\* l * m + c on limbs, for m and c up to 65536: the carry out, followed by
\* as many limbs as l has.  The lower half is done first and its carry goes
\* into the upper half.
RECURSIVE MulAddCarry(_, _, _)
MulAddCarry(l, m, c) ==
  IF l = <<>> THEN <<c>>
  ELSE IF Len(l) = 1
    THEN With(l[1] * m + c, LAMBDA x : <<x \div 10000, x % 10000>>)
    ELSE With(MulAddCarry(SubSeq(l, Len(l) \div 2 + 1, Len(l)), m, c),
              LAMBDA low :
                MulAddCarry(SubSeq(l, 1, Len(l) \div 2), m, low[1])
                  \o Tail(low))

MulAdd(l, m, c) ==
  With(MulAddCarry(l, m, c), LAMBDA r : SmallLimbs(r[1]) \o Tail(r))

\* l \div m on limbs, given the remainder carried in, for m up to 65536: as
\* many limbs as l has, followed by the remainder.  The upper half is done
\* first and its remainder goes into the lower half.
RECURSIVE DivRem(_, _, _)
DivRem(l, m, carry) ==
  IF l = <<>> THEN <<carry>>
  ELSE IF Len(l) = 1
    THEN With(carry * 10000 + l[1], LAMBDA x : <<x \div m, x % m>>)
    ELSE With(DivRem(SubSeq(l, 1, Len(l) \div 2), m, carry),
              LAMBDA high :
                Front(high)
                  \o DivRem(SubSeq(l, Len(l) \div 2 + 1, Len(l)), m,
                            high[Len(high)]))

Div(l, m) == StripZeros(Front(DivRem(l, m, 0)))

\* l % m on limbs.
Rem(l, m) == With(DivRem(l, m, 0), LAMBDA r : r[Len(r)])

\* a < b, on limbs or on digits.
Less(a, b) ==
  \/ Len(a) < Len(b)
  \/ /\ Len(a) = Len(b)
     /\ \E i \in 1..Len(a) :
          /\ a[i] < b[i]
          /\ \A j \in 1..(i - 1) : a[j] = b[j]

\* l * 2^e on limbs, at most sixteen doublings in one multiplication.
RECURSIVE ShiftUp(_, _)
ShiftUp(l, e) ==
  IF e <= 16 THEN MulAdd(l, 2 ^ e, 0)
  ELSE With(ShiftUp(l, e \div 2), LAMBDA h : ShiftUp(h, e - e \div 2))

\* l \div 2^e on limbs, at most sixteen halvings in one division.
RECURSIVE ShiftDown(_, _)
ShiftDown(l, e) ==
  IF e <= 16 THEN Div(l, 2 ^ e)
  ELSE With(ShiftDown(l, e \div 2), LAMBDA h : ShiftDown(h, e - e \div 2))

TwoTo53 == ShiftUp(<<1>>, 53)

\* The least e from lo to hi with l < 2^(53 + e), hi being one such.
RECURSIVE LeastHalvings(_, _, _)
LeastHalvings(l, lo, hi) ==
  IF lo = hi THEN lo
  ELSE With((lo + hi) \div 2,
            LAMBDA mid : IF Less(l, ShiftUp(<<1>>, 53 + mid))
                           THEN LeastHalvings(l, lo, mid)
                           ELSE LeastHalvings(l, mid + 1, hi))

Max(a, b) == IF a > b THEN a ELSE b

\* The number of halvings that bring the limbs l below 2^53.  A limb is
\* between 13 and 14 bits, so l is at least 2^(13 * (Len(l) - 1)) and below
\* 2^(14 * Len(l)).
Halvings(l) ==
  LeastHalvings(l, Max(0, 13 * Len(l) - 65), Max(0, 14 * Len(l) - 53))

\* The double m * 2^e, or infinity past the largest double,
\* (2^53 - 1) * 2^971.
DoubleFrom(m, e) ==
  IF e > 971 \/ (e = 971 /\ m = TwoTo53)
    THEN [infinite |-> TRUE, digits |-> <<>>]
    ELSE [infinite |-> FALSE, digits |-> ToDigits(ShiftUp(m, e))]

\* The limbs l, which need e >= 1 halvings, rounded to a double: q is l
\* without its last e - 1 bits, so the last bit of q is the first bit
\* dropped, and the mantissa goes up when that bit is set and either a later
\* bit is set too or the mantissa is odd (ties to even).
RoundLimbs(l, e) ==
  With(ShiftDown(l, e - 1),
       LAMBDA q :
         With(Div(q, 2),
              LAMBDA m :
                IF Rem(q, 2) = 1 /\ (ShiftUp(q, e - 1) # l \/ Rem(m, 2) = 1)
                  THEN DoubleFrom(MulAdd(m, 1, 1), e)
                  ELSE DoubleFrom(m, e)))

\* The double nearest to the number with digits d, as its digits.  A number
\* of up to 15 digits is below 2^53 and is a double itself; a number of more
\* than 309 digits is beyond every double.
DoubleOf(d) ==
  IF Len(d) <= 15 THEN [infinite |-> FALSE, digits |-> d]
  ELSE IF Len(d) > 309 THEN [infinite |-> TRUE, digits |-> <<>>]
  ELSE With(ToLimbs(d),
            LAMBDA l :
              With(Halvings(l),
                   LAMBDA e : IF e = 0
                                THEN [infinite |-> FALSE, digits |-> d]
                                ELSE RoundLimbs(l, e)))

RoundsTo(x, d) ==
  With(DoubleOf(x), LAMBDA r : ~r.infinite /\ r.digits = d)

\* The n-digit candidates for d: the first n digits of d followed by zeros,
\* and that with its n digits one higher.
Below(d, n) == SubSeq(d, 1, n) \o Zeros(Len(d) - n)

Above(d, n) ==
  ToDigits(MulAdd(ToLimbs(SubSeq(d, 1, n)), 1, 1)) \o Zeros(Len(d) - n)

\* Below(d, n) is at least as near to d as Above(d, n) is, and on a tie is
\* the one whose last significant digit is even: twice what d has past its
\* first n digits against one unit of the nth digit.
BelowIsNearer(d, n) ==
  With(ToDigits(MulAdd(ToLimbs(StripZeros(Drop(d, n))), 2, 0)),
       LAMBDA rest2 :
         \/ Less(rest2, <<1>> \o Zeros(Len(d) - n))
         \/ rest2 = <<1>> \o Zeros(Len(d) - n) /\ d[n] % 2 = 0)

\* Some candidate of n digits rounds to the double with digits d.  When one
\* of n digits does, one of n + 1 digits does, being nearer to d.
HasCandidate(d, n) ==
  n >= Len(d) \/ RoundsTo(Below(d, n), d) \/ RoundsTo(Above(d, n), d)

\* The least n from lo to hi with a candidate of n digits, hi being one.
RECURSIVE LeastDigits(_, _, _)
LeastDigits(d, lo, hi) ==
  IF lo = hi THEN lo
  ELSE With((lo + hi) \div 2,
            LAMBDA mid : IF HasCandidate(d, mid)
                           THEN LeastDigits(d, lo, mid)
                           ELSE LeastDigits(d, mid + 1, hi))

\* The candidate of n digits for the double with digits d, the one nearest
\* to d when both round to it.
Candidate(d, n) ==
  IF n >= Len(d) THEN d
  ELSE With(<<RoundsTo(Below(d, n), d), RoundsTo(Above(d, n), d)>>,
            LAMBDA ok :
              IF ok[1] /\ (~ok[2] \/ BelowIsNearer(d, n))
                THEN Below(d, n)
                ELSE Above(d, n))

\* The decimal number with the fewest significant digits that rounds to the
\* double with digits d (Number::toString).  A double of up to 15 digits is
\* the only number of up to 15 digits that rounds to it; 17 digits tell any
\* two doubles apart.
Shortest(d) ==
  IF Len(d) <= 15 THEN d
  ELSE With(LeastDigits(d, 1, 17), LAMBDA n : Candidate(d, n))

---------------------------------------------------------------------------
(* Characters: a string is its UTF-16 code units *)

\* The printable characters of ASCII in the order of their code units: 32
\* to 95, and 97 to 126.  Code unit 96, the backquote, cannot be written in
\* a string of this module; no string the model builds holds it.
UpToUnderscore ==
  << " ", "!", "\"", "#", "$", "%", "&", "'", "(", ")", "*", "+",
     ",", "-", ".", "/", "0", "1", "2", "3", "4", "5", "6", "7",
     "8", "9", ":", ";", "<", "=", ">", "?", "@", "A", "B", "C",
     "D", "E", "F", "G", "H", "I", "J", "K", "L", "M", "N", "O",
     "P", "Q", "R", "S", "T", "U", "V", "W", "X", "Y", "Z", "[",
     "\\", "]", "^", "_" >>

FromLowerA ==
  << "a", "b", "c", "d", "e", "f", "g", "h", "i", "j", "k", "l",
     "m", "n", "o", "p", "q", "r", "s", "t", "u", "v", "w", "x",
     "y", "z", "{", "|", "}", "~" >>

\* The code unit of a printable character of ASCII.
Code ==
  [c \in {UpToUnderscore[i] : i \in 1..Len(UpToUnderscore)}
           \cup {FromLowerA[i] : i \in 1..Len(FromLowerA)} |->
     IF \E i \in 1..Len(UpToUnderscore) : UpToUnderscore[i] = c
       THEN 31 + CHOOSE i \in 1..Len(UpToUnderscore) : UpToUnderscore[i] = c
       ELSE 96 + CHOOSE i \in 1..Len(FromLowerA) : FromLowerA[i] = c]

\* The printable character of ASCII with code unit n.
CharOf(n) == IF n < 96 THEN UpToUnderscore[n - 31] ELSE FromLowerA[n - 96]

\* The code units of a sequence of printable characters of ASCII.
Codes(s) == [i \in 1..Len(s) |-> Code[s[i]]]

\* A line feed, which is no printable character.
LineFeed == <<10>>

\* U+2003 EM SPACE, a StrWhiteSpaceChar, and U+00E9, a letter that is neither
\* white space nor a digit.
EmSpace == <<8195>>
EAcute == <<233>>

---------------------------------------------------------------------------
(* ToString of a value, as a sequence of code units *)

\* The code units of the decimal digits d.
DigitChars(d) == [i \in 1..Len(d) |-> Code["0"] + d[i]]

\* Number::toString of a double of 10^9 or more given by its digits: plain
\* digits up to 21 of them, exponent notation beyond.
BigToChars(d) ==
  With(Shortest(d),
       LAMBDA r :
         IF Len(r) <= 21 THEN DigitChars(r)
         ELSE With(StripTrailingZeros(r),
                   LAMBDA sig :
                     DigitChars(<<sig[1]>>)
                       \o (IF Len(sig) > 1
                             THEN Codes(<<".">>) \o DigitChars(Tail(sig))
                             ELSE <<>>)
                       \o Codes(<<"e", "+">>)
                       \o DigitChars(SmallDigits(Len(r) - 1))))

NumberToChars(n) ==
  CASE n.type = "NaN" -> Codes(<<"N", "a", "N">>)
    [] n.type = "number" ->
         IF n.value = 0 THEN Codes(<<"0">>)
         ELSE IF n.value < 0
           THEN Codes(<<"-">>) \o DigitChars(SmallDigits(0 - n.value))
         ELSE DigitChars(SmallDigits(n.value))
    [] n.type = "bignumber" ->
         (IF n.negative THEN Codes(<<"-">>) ELSE <<>>)
           \o (IF n.infinite
                 THEN Codes(<<"I", "n", "f", "i", "n", "i", "t", "y">>)
                 ELSE BigToChars(n.digits))

\* ToString of a value; a string carries its code units as a sequence.  An
\* array is its elements joined by commas, undefined and null elements
\* giving nothing.
RECURSIVE ToChars(_)
RECURSIVE JoinElements(_)

JoinElements(elements) ==
  IF elements = <<>> THEN <<>>
  ELSE IF Len(elements) = 1
    THEN (IF elements[1].type \in {"undefined", "null"} THEN <<>>
          ELSE ToChars(elements[1]))
    ELSE JoinElements(SubSeq(elements, 1, Len(elements) \div 2))
           \o Codes(<<",">>)
           \o JoinElements(Drop(elements, Len(elements) \div 2))

ToChars(v) ==
  CASE v.type = "string"    -> v.value
    [] v.type = "undefined" ->
         Codes(<<"u", "n", "d", "e", "f", "i", "n", "e", "d">>)
    [] v.type = "null"      -> Codes(<<"n", "u", "l", "l">>)
    [] v.type = "boolean"   -> IF v.value THEN Codes(<<"t", "r", "u", "e">>)
                               ELSE Codes(<<"f", "a", "l", "s", "e">>)
    [] v.type = "array"     -> JoinElements(v.value)
    [] v.type = "object"    ->
         Codes(<<"[", "o", "b", "j", "e", "c", "t", " ",
           "O", "b", "j", "e", "c", "t", "]">>)
    [] OTHER                -> NumberToChars(v)

\* The code units, all of printable characters of ASCII, as one string.
RECURSIVE Join(_)
Join(chars) ==
  IF chars = <<>> THEN ""
  ELSE CharOf(chars[1]) \o Join(Tail(chars))

\* `${id}` of a number in a template literal.
NumberToString(n) == Join(NumberToChars(n))

---------------------------------------------------------------------------
(* parseInt(value) with no radix argument *)

\* StrWhiteSpaceChar: tab, line feed, vertical tab, form feed, carriage
\* return, space, no-break space, U+1680, U+2000 to U+200A, U+2028, U+2029,
\* U+202F, U+205F, U+3000 and U+FEFF.
WhiteSpace ==
  (9..13) \cup {32, 160, 5760} \cup (8192..8202)
    \cup {8232, 8233, 8239, 8287, 12288, 65279}

\* The value of code unit c as a digit, 0 to 9 and a to z or A to Z from
\* 10 on; 36, a digit of no radix, when c is none of them.
DigitVal(c) ==
  IF c \in Code["0"]..Code["9"] THEN c - Code["0"]
  ELSE IF c \in Code["a"]..Code["z"] THEN c - Code["a"] + 10
  ELSE IF c \in Code["A"]..Code["Z"] THEN c - Code["A"] + 10
  ELSE 36

StripLeadingWS(s) == Drop(s, LeadingIn(s, WhiteSpace))

\* Number of leading characters of s that are digits in the given radix.
DigitPrefixLen(s, radix) ==
  CHOOSE n \in 0..Len(s) :
    /\ n = Len(s) \/ DigitVal(s[n + 1]) >= radix
    /\ \A i \in 1..n : DigitVal(s[i]) < radix

\* Value of at most four hexadecimal digits.
RECURSIVE HexValue(_)
HexValue(v) == IF v = <<>> THEN 0 ELSE HexValue(Front(v)) * 16 + v[Len(v)]

\* The limbs of the number whose limbs are acc followed by the hexadecimal
\* digits v, at most four digits in one multiplication.
RECURSIVE HexToLimbs(_, _)
HexToLimbs(acc, v) ==
  IF Len(v) <= 4 THEN MulAdd(acc, 16 ^ Len(v), HexValue(v))
  ELSE With(HexToLimbs(acc, SubSeq(v, 1, Len(v) \div 2)),
            LAMBDA high : HexToLimbs(high, Drop(v, Len(v) \div 2)))

\* The decimal digits of the number whose digits in the radix are v.  A
\* hexadecimal number of more than 256 digits is 2^1024 or more, beyond every
\* double: any number of 310 digits stands for it.
ToDecimal(v, radix) ==
  LET sig == StripZeros(v)
  IN IF radix = 10 THEN sig
     ELSE IF Len(sig) > 256 THEN <<1>> \o Zeros(309)
     ELSE ToDigits(HexToLimbs(<<>>, sig))

\* Value of at most nine decimal digits.
RECURSIVE DigitsValue(_)
DigitsValue(d) ==
  IF d = <<>> THEN 0
  ELSE DigitsValue(SubSeq(d, 1, Len(d) - 1)) * 10 + d[Len(d)]

\* The number of the given sign and decimal digits.
NumberOf(negative, magnitude) ==
  IF Len(magnitude) <= 9
    THEN Num(IF negative THEN 0 - DigitsValue(magnitude)
             ELSE DigitsValue(magnitude))
    ELSE With(DoubleOf(magnitude),
              LAMBDA r : IF r.infinite THEN Infinity(negative)
                         ELSE BigNum(negative, r.digits))

\* The digits w in the radix, up to the first character that is not one.
ParseDigits(negative, w, radix) ==
  With(DigitPrefixLen(w, radix),
       LAMBDA n :
         IF n = 0 THEN NaN
         ELSE With(ToDecimal([i \in 1..n |-> DigitVal(w[i])], radix),
                   LAMBDA magnitude : NumberOf(negative, magnitude)))

\* After the sign: 0x or 0X makes the radix 16, otherwise it is 10.
ParseUnsigned(negative, u) ==
  IF Len(u) >= 2 /\ u[1] = Code["0"] /\ u[2] \in {Code["x"], Code["X"]}
    THEN ParseDigits(negative, Drop(u, 2), 16)
    ELSE ParseDigits(negative, u, 10)

\* parseInt of the characters s: leading white space is skipped, then comes
\* an optional sign.
ParseChars(s) ==
  With(StripLeadingWS(s),
       LAMBDA t : IF t # <<>> /\ t[1] \in {Code["+"], Code["-"]}
                    THEN With(Tail(t),
                              LAMBDA u : ParseUnsigned(t[1] = Code["-"], u))
                    ELSE ParseUnsigned(FALSE, t))

\* parseInt applies ToString to its argument first.
parseInt(v) == ParseChars(ToChars(v))

isNaN(n) == n.type = "NaN"

\* n > 0 for a number n that is not NaN.
GreaterThanZero(n) ==
  IF n.type = "bignumber" THEN ~n.negative ELSE n.value > 0

---------------------------------------------------------------------------
(* Array methods the handlers use *)

\* post.id === id: strict equality of a stored id with a parsed number;
\* NaN equals nothing, and a stored id, a length plus one, is below 10^9.
IdEquals(postId, id) == id.type = "number" /\ postId = id.value

\* posts.find(p => p.id === id) as the index of the first match, 0 for none.
find(ps, id) ==
  IF \E i \in 1..Len(ps) : IdEquals(ps[i].id, id)
    THEN CHOOSE i \in 1..Len(ps) :
           /\ IdEquals(ps[i].id, id)
           /\ \A j \in 1..(i - 1) : ~IdEquals(ps[j].id, id)
    ELSE 0

Min(a, b) == IF a < b THEN a ELSE b

\* Mutant of slice: posts.slice(0, limit - 1).
sliceOneShort(ps, limit) ==
  IF limit.type = "bignumber" THEN ps
  ELSE SubSeq(ps, 1, Min(limit.value - 1, Len(ps)))

\* posts.slice(0, limit) for a number limit > 0: the end is clamped to the
\* length.
slice(ps, limit) ==
  IF limit.type = "bignumber" THEN ps
  ELSE SubSeq(ps, 1, Min(limit.value, Len(ps)))

\* Mutant of filter: only the first match is removed, as by
\* posts.splice(posts.findIndex(p => p.id === id), 1).
filterFirstMatch(ps, id) ==
  IF find(ps, id) = 0 THEN ps
  ELSE SubSeq(ps, 1, find(ps, id) - 1) \o SubSeq(ps, find(ps, id) + 1, Len(ps))

\* posts.filter(p => p.id !== id).
filter(ps, id) == SelectSeq(ps, LAMBDA p : ~IdEquals(p.id, id))

\* Mutant of push: posts.unshift(newPost).
pushFront(ps, newPost) == <<newPost>> \o ps

\* posts.push(newPost).
push(ps, newPost) == Append(ps, newPost)

---------------------------------------------------------------------------
(* The boundary: what a handler calls on res and next *)

\* res.status(status).json(body)
Json(status, body) == [fn |-> "json", status |-> status, body |-> body]

\* const error = new Error(message); error.status = status; next(error)
NextError(message, status) ==
  [fn |-> "next", error |-> [message |-> message, status |-> status]]

\* What a handler yields: the module-level array afterwards and the calls
\* it made on the boundary, in order.
Outcome(ps, calls) == [posts |-> ps, calls |-> calls]

---------------------------------------------------------------------------
(* The handlers *)

Seed ==
  << [id |-> 1, title |-> Str("Post 1")],
     [id |-> 2, title |-> Str("Post 2")],
     [id |-> 3, title |-> Str("Post 3")] >>

\* The parts of an Express request the handlers read.
Request(handler, id, limit, title) ==
  [handler |-> handler,
   params  |-> [id |-> id],
   query   |-> [limit |-> limit],
   body    |-> [title |-> title]]

getPosts(ps, r) ==
  LET limit == parseInt(r.query.limit)
  IN IF ~isNaN(limit) /\ GreaterThanZero(limit)
       THEN Outcome(ps, << Json(400, slice(ps, limit)) >>)
       ELSE Outcome(ps, << Json(200, ps) >>)

getPost(ps, r) ==
  LET id == parseInt(r.params.id)
      i  == find(ps, id)
  IN IF i = 0
       THEN Outcome(ps, << NextError("A post with the id of "
                                        \o NumberToString(id)
                                        \o " was not found", 404) >>)
       ELSE Outcome(ps, << Json(200, ps[i]) >>)

\* Mutant of newPostId: one more than the largest id in use.
newPostIdAfterMax(ps) ==
  IF ps = <<>> THEN 1
  ELSE (CHOOSE m \in {ps[i].id : i \in 1..Len(ps)} :
          \A i \in 1..Len(ps) : ps[i].id <= m) + 1

\* Mutant of newPostId: posts.length.
newPostIdLength(ps) == Len(ps)

\* id: posts.length + 1
newPostId(ps) == Len(ps) + 1

\* Mutant of createPost: the provisional entry is pushed before the title
\* is validated.
createPostPushFirst(ps, r) ==
  LET newPost == [id |-> newPostId(ps), title |-> r.body.title]
      pushed  == push(ps, newPost)
  IN IF ~Truthy(newPost.title)
       THEN Outcome(pushed, << NextError("Please include a title", 400) >>)
       ELSE Outcome(pushed, << Json(201, pushed) >>)

createPost(ps, r) ==
  LET newPost == [id |-> newPostId(ps), title |-> r.body.title]
  IN IF ~Truthy(newPost.title)
       THEN Outcome(ps, << NextError("Please include a title", 400) >>)
       ELSE LET pushed == push(ps, newPost)
            IN Outcome(pushed, << Json(201, pushed) >>)

\* Mutant of updatePost: every entry with the id gets the title.
updatePostEveryMatch(ps, r) ==
  LET id == parseInt(r.params.id)
      i  == find(ps, id)
  IN IF i = 0
       THEN Outcome(ps, << NextError("Post with " \o NumberToString(id)
                                        \o " is not found", 400) >>)
       ELSE LET updated ==
                  [k \in 1..Len(ps) |->
                     IF IdEquals(ps[k].id, id)
                       THEN [ps[k] EXCEPT !.title = r.body.title]
                       ELSE ps[k]]
            IN Outcome(updated, << Json(200, updated[i]) >>)

\* Mutant of updatePost: the title is validated as createPost validates it.
updatePostValidating(ps, r) ==
  LET id == parseInt(r.params.id)
      i  == find(ps, id)
  IN IF i = 0
       THEN Outcome(ps, << NextError("Post with " \o NumberToString(id)
                                        \o " is not found", 400) >>)
       ELSE IF ~Truthy(r.body.title)
         THEN Outcome(ps, << NextError("Please include a title", 400) >>)
         ELSE LET updated == [ps EXCEPT ![i].title = r.body.title]
              IN Outcome(updated, << Json(200, updated[i]) >>)

updatePost(ps, r) ==
  LET id == parseInt(r.params.id)
      i  == find(ps, id)
  IN IF i = 0
       THEN Outcome(ps, << NextError("Post with " \o NumberToString(id)
                                        \o " is not found", 400) >>)
       ELSE LET updated == [ps EXCEPT ![i].title = r.body.title]
            IN Outcome(updated, << Json(200, updated[i]) >>)

deletePost(ps, r) ==
  LET id == parseInt(r.params.id)
      i  == find(ps, id)
  IN IF i = 0
       THEN Outcome(ps, << NextError("Post with " \o NumberToString(id)
                                        \o " is not found", 400) >>)
       ELSE Outcome(filter(ps, id), << Json(200, ps[i]) >>)

---------------------------------------------------------------------------
(* Inputs *)

\* req.params.id: a non-empty path segment, as the router decodes it: "2",
\* "4", "\u20032", "0x4", "4294967296" and "\u00e92".  They parse to 2, 4,
\* 2, 4, 4294967296 and NaN.
IdInputs ==
  { Str(Codes(<<"2">>)), Str(Codes(<<"4">>)),
    Str(EmSpace \o Codes(<<"2">>)), Str(Codes(<<"0", "x", "4">>)),
    Str(Codes(<<"4", "2", "9", "4", "9", "6", "7", "2", "9", "6">>)),
    Str(EAcute \o Codes(<<"2">>)) }

\* Further ids that getPost, which changes nothing, is asked for.
ReadIdInputs == { Str(Codes(<<"1">>)), Str(Codes(<<"3">>)) }

\* req.query.limit: absent, a string, or an array of strings when the query
\* repeats the parameter: absent, ["2", "9"], "0", "-2", "\n+3.9", "0X10"
\* and "9007199254740993".  They parse to NaN, 2, 0, -2, 3, 16 and
\* 9007199254740992.
LimitInputs ==
  { undefined, Arr(<<Str(Codes(<<"2">>)), Str(Codes(<<"9">>))>>),
    Str(Codes(<<"0">>)), Str(Codes(<<"-", "2">>)),
    Str(LineFeed \o Codes(<<"+", "3", ".", "9">>)),
    Str(Codes(<<"0", "X", "1", "0">>)),
    Str(Codes(<<"9", "0", "0", "7", "1", "9", "9", "2",
                "5", "4", "7", "4", "0", "9", "9", "3">>)) }

\* req.body.title, any JSON value: absent, the empty string, 0, non-empty
\* strings, 5.
TitleInputs ==
  { undefined, Str(""), Num(0), Str("Post 4"), Str("Post 5"), Num(5) }

---------------------------------------------------------------------------
(* The state machine: one step is one request handled to completion *)

NoRequest == Request("none", undefined, undefined, undefined)

Init ==
  /\ posts = Seed
  /\ req = NoRequest
  /\ res = <<>>

Handle(r, out) ==
  /\ posts' = out.posts
  /\ req' = r
  /\ res' = out.calls

GetPosts ==
  \E limit \in LimitInputs :
    LET r == Request("getPosts", undefined, limit, undefined)
    IN Handle(r, getPosts(posts, r))

GetPost ==
  \E id \in IdInputs \cup ReadIdInputs :
    LET r == Request("getPost", id, undefined, undefined)
    IN Handle(r, getPost(posts, r))

\* createPost while it leaves the collection within max entries.
CreatePostUpTo(max) ==
  \E title \in TitleInputs :
    LET r == Request("createPost", undefined, undefined, title)
    IN \E out \in {createPost(posts, r)} :
         /\ Len(out.posts) <= max
         /\ Handle(r, out)

CreatePost == CreatePostUpTo(MaxPosts)

UpdatePost ==
  \E id \in IdInputs, title \in TitleInputs :
    LET r == Request("updatePost", id, undefined, title)
    IN Handle(r, updatePost(posts, r))

DeletePost ==
  \E id \in IdInputs :
    LET r == Request("deletePost", id, undefined, undefined)
    IN Handle(r, deletePost(posts, r))

Next == GetPosts \/ GetPost \/ CreatePost \/ UpdatePost \/ DeletePost

Spec == Init /\ [][Next]_vars

\* The same machine when every deletePost is for an id not in the collection.
DeletePostUnknownId ==
  \E id \in IdInputs :
    LET r == Request("deletePost", id, undefined, undefined)
    IN /\ find(posts, parseInt(id)) = 0
       /\ Handle(r, deletePost(posts, r))

CreatePostNoDelete == CreatePostUpTo(MaxPostsNoDelete)

NextNoDelete ==
  GetPosts \/ GetPost \/ CreatePostNoDelete \/ UpdatePost \/ DeletePostUnknownId

SpecNoDelete == Init /\ [][NextNoDelete]_vars

---------------------------------------------------------------------------
(* Properties.  A step is identified by the request it handles, req'; the  *)
(* collection before it is posts and after it posts'.  A value used more   *)
(* than once in a formula is bound by a quantifier over a one-element set, *)
(* which evaluates it once.                                                *)

\* The indices of the entries of ps whose id is the parsed id.
Matches(ps, id) == { i \in 1..Len(ps) : IdEquals(ps[i].id, id) }

\* ps without its entry at index i.
RemoveAt(ps, i) == SubSeq(ps, 1, i - 1) \o SubSeq(ps, i + 1, Len(ps))

\* The calls are a single next(error) with the given status.
OneError(calls, status) ==
  /\ Len(calls) = 1
  /\ calls[1].fn = "next"
  /\ calls[1].error.status = status

\* The calls are a single res.status(status).json(...).
OneJson(calls, status) ==
  /\ Len(calls) = 1
  /\ calls[1].fn = "json"
  /\ calls[1].status = status

\* C1: a deletePost for an id that is in the collection makes the collection
\* one entry shorter, removes exactly one entry, which has that id, keeps
\* the others in order, and responds 200 with the first entry of that id.
C1_DeleteRemovesExactlyOne ==
  [][ req'.handler = "deletePost"
      => \A id \in {parseInt(req'.params.id)} :
         \A m \in {Matches(posts, id)} :
           m # {}
           => /\ Len(posts') = Len(posts) - 1
              /\ \E k \in m : posts' = RemoveAt(posts, k)
              /\ OneJson(res', 200)
              /\ \E k \in m : res'[1].body = posts[k] ]_vars

\* C2: a createPost with a truthy title makes the collection one entry
\* longer, the new last entry has the input title and id = size before + 1,
\* the earlier entries are as they were, and the response is 201 with the
\* whole updated collection.
C2_CreateAppends ==
  [][ (req'.handler = "createPost" /\ Truthy(req'.body.title))
      => /\ Len(posts') = Len(posts) + 1
         /\ posts'[Len(posts')].title = req'.body.title
         /\ posts'[Len(posts')].id = Len(posts) + 1
         /\ \A k \in 1..Len(posts) : posts'[k] = posts[k]
         /\ OneJson(res', 201)
         /\ res'[1].body = posts' ]_vars

\* A create with a truthy title that is no string has just appended it.
C2_Witness ==
  /\ req.handler = "createPost"
  /\ req.body.title = Num(5)
  /\ OneJson(res, 201)
  /\ res[1].body = posts
  /\ Len(posts) > Len(Seed)
  /\ posts[Len(posts)] = [id |-> Len(posts), title |-> Num(5)]

\* C3: getPost leaves the collection alone; when an entry has the requested
\* id, that entry is the only one with the id and is returned with 200;
\* otherwise the error handed to next has status 404 and names the id.
C3_GetReturnsUniqueEntry ==
  [][ req'.handler = "getPost"
      => \A id \in {parseInt(req'.params.id)} :
         \A m \in {Matches(posts, id)} :
           /\ posts' = posts
           /\ IF m # {}
                THEN /\ Cardinality(m) = 1
                     /\ OneJson(res', 200)
                     /\ \A k \in m : res'[1].body = posts[k]
                ELSE /\ OneError(res', 404)
                     /\ res'[1].error.message =
                          "A post with the id of " \o NumberToString(id)
                            \o " was not found" ]_vars

\* C4: an updatePost for an id in the collection changes the title of the
\* first entry with that id and nothing else, and responds 200 with that
\* entry as changed; for an id not in the collection it changes nothing and
\* hands next a not-found error.
C4_UpdateChangesOnlyFirstMatch ==
  [][ req'.handler = "updatePost"
      => \A id \in {parseInt(req'.params.id)} :
         \A m \in {Matches(posts, id)} :
           IF m # {}
             THEN \E first \in m :
                    /\ \A j \in m : first <= j
                    /\ Len(posts') = Len(posts)
                    /\ \A k \in 1..Len(posts) : posts'[k].id = posts[k].id
                    /\ \A k \in 1..Len(posts) : k # first => posts'[k] = posts[k]
                    /\ posts'[first].title = req'.body.title
                    /\ OneJson(res', 200)
                    /\ res'[1].body = posts'[first]
             ELSE /\ posts' = posts
                  /\ Len(res') = 1
                  /\ res'[1].fn = "next"
                  /\ res'[1].error.message =
                       "Post with " \o NumberToString(id) \o " is not found" ]_vars

\* An update has just hit the first of two entries that share the id.
C4_Witness ==
  /\ req.handler = "updatePost"
  /\ OneJson(res, 200)
  /\ \E i, j \in Matches(posts, parseInt(req.params.id)) :
       /\ i < j
       /\ posts[i].title = req.body.title
       /\ posts[j].title # req.body.title
       /\ res[1].body = posts[i]

\* C5: getPosts leaves the collection alone and makes one json response;
\* when the limit parses to N > 0 the body is the first min(N, size)
\* entries in order, otherwise it is the whole collection.  For N of 10^9
\* or more min(N, size) is the size: the body is the whole collection too.
C5_ListPrefix ==
  [][ req'.handler = "getPosts"
      => \A n \in {parseInt(req'.query.limit)} :
           /\ posts' = posts
           /\ Len(res') = 1
           /\ res'[1].fn = "json"
           /\ IF n.type = "number" /\ n.value > 0
                THEN /\ Len(res'[1].body) = Min(n.value, Len(posts))
                     /\ \A k \in 1..Len(res'[1].body) : res'[1].body[k] = posts[k]
                ELSE res'[1].body = posts ]_vars

\* A limit smaller than the collection, written with leading white space,
\* a sign and a fraction, has just cut the list.
C5_Witness ==
  /\ req.handler = "getPosts"
  /\ req.query.limit = Str(LineFeed \o Codes(<<"+", "3", ".", "9">>))
  /\ Len(posts) > 3
  /\ Len(res) = 1
  /\ res[1].body = << posts[1], posts[2], posts[3] >>

\* C6: a failing operation leaves the collection as it was and makes exactly
\* one call, next(error): status 404 from getPost on an unknown id, 400 from
\* createPost with a falsy title, 400 from updatePost and deletePost on an
\* unknown id.
C6_FailuresChangeNothing ==
  [][ /\ (req'.handler = "createPost" /\ ~Truthy(req'.body.title))
         => (posts' = posts /\ OneError(res', 400))
      /\ req'.handler \in {"getPost", "updatePost", "deletePost"}
         => \A id \in {parseInt(req'.params.id)} :
            \A m \in {Matches(posts, id)} :
              m = {}
              => /\ posts' = posts
                 /\ OneError(res', IF req'.handler = "getPost" THEN 404 ELSE 400) ]_vars

C6_Witness ==
  /\ req.handler = "createPost"
  /\ ~Truthy(req.body.title)
  /\ OneError(res, 400)
  /\ res[1].error.message = "Please include a title"
  /\ posts = Seed

AfterCreate4 ==
  << [id |-> 1, title |-> Str("Post 1")],
     [id |-> 2, title |-> Str("Post 2")],
     [id |-> 3, title |-> Str("Post 3")],
     [id |-> 4, title |-> Str("Post 4")] >>

AfterDelete2 ==
  << [id |-> 1, title |-> Str("Post 1")],
     [id |-> 3, title |-> Str("Post 3")],
     [id |-> 4, title |-> Str("Post 4")] >>

AfterCreate5 ==
  << [id |-> 1, title |-> Str("Post 1")],
     [id |-> 3, title |-> Str("Post 3")],
     [id |-> 4, title |-> Str("Post 4")],
     [id |-> 4, title |-> Str("Post 5")] >>

\* C7: from the seed, create("Post 4") gives the seed plus {4, "Post 4"};
\* from there delete(2) gives [{1}, {3}, {4}]; from there create("Post 5")
\* appends an entry with id 4, so two entries have id 4.
C7_CollisionScenario ==
  [][ /\ (posts = Seed /\ req'.handler = "createPost"
           /\ req'.body.title = Str("Post 4"))
         => (posts' = AfterCreate4 /\ Len(posts') = 4)
      /\ (posts = AfterCreate4 /\ req'.handler = "deletePost"
           /\ parseInt(req'.params.id) = Num(2))
         => posts' = AfterDelete2
      /\ (posts = AfterDelete2 /\ req'.handler = "createPost"
           /\ req'.body.title = Str("Post 5"))
         => /\ posts' = AfterCreate5
            /\ posts'[Len(posts')].id = 4
            /\ Cardinality(Matches(posts', Num(4))) = 2 ]_vars

C7_Witness ==
  /\ posts = AfterCreate5
  /\ req.handler = "createPost"
  /\ req.body.title = Str("Post 5")
  /\ OneJson(res, 201)

\* C8: while no deletePost has succeeded, the entry at position i has id i.
C8_IdsArePositions ==
  \A i \in 1..Len(posts) : posts[i].id = i

\* Two creates beyond the seed have happened, one of them with a title that
\* is no string, and a seed entry has been updated.
C8_Witness ==
  /\ Len(posts) >= Len(Seed) + 2
  /\ \A i \in 1..Len(posts) : posts[i].id = i
  /\ \E i \in (Len(Seed) + 1)..Len(posts) : posts[i].title = Num(5)
  /\ \E i \in 1..Len(Seed) : posts[i].title # Seed[i].title

\* The ids of the entries of ps.
Ids(ps) == { ps[i].id : i \in 1..Len(ps) }

\* The message of the not-found error of the handler for the parsed id.
NotFoundMessage(handler, id) ==
  IF handler = "getPost"
    THEN "A post with the id of " \o NumberToString(id) \o " was not found"
    ELSE "Post with " \o NumberToString(id) \o " is not found"

\* C9: a successful deletePost(id) leaves no entry with that id; while no
\* entry has an id, getPost, updatePost and deletePost for it change nothing
\* and hand next the not-found error that names the id (status 404 from
\* getPost, 400 from the other two); an id that no entry had appears in the
\* collection only by a createPost, and then it is the size before plus one.
C9_DeletedIdIsGone ==
  [][ /\ req'.handler \in {"getPost", "updatePost", "deletePost"}
         => \A id \in {parseInt(req'.params.id)} :
            \A m \in {Matches(posts, id)} :
              /\ (req'.handler = "deletePost" /\ m # {})
                 => Matches(posts', id) = {}
              /\ m = {}
                 => /\ posts' = posts
                    /\ OneError(res', IF req'.handler = "getPost"
                                        THEN 404 ELSE 400)
                    /\ res'[1].error.message
                         = NotFoundMessage(req'.handler, id)
      /\ req'.handler # "createPost" => Ids(posts') \subseteq Ids(posts)
      /\ req'.handler = "createPost"
         => Ids(posts') \subseteq Ids(posts) \cup {Len(posts) + 1} ]_vars

\* A delete has just removed two entries that shared the id.
C9_Witness ==
  /\ req.handler = "deletePost"
  /\ OneJson(res, 200)
  /\ res[1].body.id = 4
  /\ Matches(posts, parseInt(req.params.id)) = {}
  /\ Len(posts) = 2

\* Every entry has a truthy title.
AllTitlesNonEmpty(ps) == \A i \in 1..Len(ps) : Truthy(ps[i].title)

\* C10: every entry of the initial collection has a truthy title; an
\* updatePost for an id in the collection succeeds with 200 and stores the
\* title whatever it is, falsy titles included; createPost and deletePost
\* keep "every entry has a truthy title" when it holds.
C10_UpdateDoesNotValidate ==
  /\ AllTitlesNonEmpty(posts)
  /\ [][ /\ req'.handler = "updatePost"
            => \A id \in {parseInt(req'.params.id)} :
               \A m \in {Matches(posts, id)} :
                 m # {}
                 => /\ OneJson(res', 200)
                    /\ res'[1].body.title = req'.body.title
                    /\ \E k \in m : posts'[k] = res'[1].body
         /\ (req'.handler \in {"createPost", "deletePost"}
              /\ AllTitlesNonEmpty(posts))
            => AllTitlesNonEmpty(posts') ]_vars

\* An update with a falsy title has succeeded: not every title is truthy.
C10_Witness ==
  /\ req.handler = "updatePost"
  /\ ~Truthy(req.body.title)
  /\ OneJson(res, 200)
  /\ res[1].body.title = req.body.title
  /\ ~AllTitlesNonEmpty(posts)

====
